---- MODULE Spec2Model ----
(***************************************************************************)
(* Model of the sculpter crate: GPU Surface Nets mesh extraction driven by *)
(* Bevy systems.  The state is the ECS world (components per entity), the  *)
(* contents of the shader storage buffers, the pipeline cache and the      *)
(* pending GPU readbacks.  One action per system / observer / render node. *)
(*                                                                         *)
(* The WGSL shaders are not part of the sources; what a launched thread    *)
(* does is modelled from the design document (sections 4.2 - 4.4), while   *)
(* the bindings, buffer sizes, launch sizes and stage order come from the  *)
(* Rust code.                                                              *)
(***************************************************************************)
EXTENDS Integers, Sequences, FiniteSets, TLC

VARIABLES
    dimensions,   \* Res<DensityFieldSize>
    density,      \* DensityField component per entity (Option)
    buffers,      \* SurfaceNetsBuffers component per entity (Option)
    ssbo,         \* contents of the eleven ShaderStorageBuffer assets per entity
    added,        \* Added<SurfaceNetsBuffers> change-detection flag per entity
    gpu_ready,    \* how many of the entity's buffers are in RenderAssets<GpuShaderStorageBuffer>
    bind_groups,  \* SurfaceNetsBindGroups component per entity (present or not)
    compiled,     \* pipelines the PipelineCache has finished compiling
    children,     \* live Readback child entities per entity (by kind)
    readback,     \* ReadbackBuffers component per entity (Option)
    mesh,         \* Mesh3d component per entity (Option)
    dispatched,   \* history: stages dispatched so far per entity
    captured_from,\* history: buffer contents at the entity's first completed readback
    mixed,        \* history: a later readback completed on different buffer contents
    scan_valid,   \* SpecScan: validity array handed to the prefix-sum stage
    scan_out,     \* SpecScan: index array and count scalar
    scan_pc,      \* SpecScan: "init" before the dispatch, "done" after
    call_args,    \* SpecCalls: which host function is called, and its arguments
    call_ret,     \* SpecCalls: what the call returned
    call_pc       \* SpecCalls: "init" before the call, "done" after

vars == <<dimensions, density, buffers, ssbo, added, gpu_ready, bind_groups,
          compiled, children, readback, mesh, dispatched, captured_from,
          mixed, scan_valid, scan_out, scan_pc, call_args, call_ret, call_pc>>

worldVars == <<dimensions, density, buffers, ssbo, added, gpu_ready, bind_groups,
               compiled, children, readback, mesh, dispatched, captured_from,
               mixed>>

scanVars == <<scan_valid, scan_out, scan_pc>>

callVars == <<call_args, call_ret, call_pc>>

----------------------------------------------------------------------------
(* Option values: None is the empty sequence, Some(x) a one-element one.   *)
None == <<>>
Some(x) == <<x>>
IsSome(o) == o # <<>>
Get(o) == o[1]

Min(a, b) == IF a < b THEN a ELSE b
Zeros(n) == [i \in 1..n |-> 0]

----------------------------------------------------------------------------
(* Bounds of the model.                                                    *)
MaxScanLen == 260      \* longest validity array drawn in SpecScan
SmallScanLen == 3      \* short validity arrays 0..SmallScanLen drawn in SpecScan
MaxStride == 4         \* validity patterns: every k-th entry set, k in 1..MaxStride
PartialBatch == 5      \* buffers prepared when a frame's batch is cut short
MaxDim == 4            \* SpecCalls: grid dimensions 0..MaxDim per axis for index
MaxFaces == 2          \* SpecCalls: face counts 0..MaxFaces for triangle_indices
MaxIndexWords == 7     \* SpecCalls: index lists of 0..MaxIndexWords words for normals
MaxVertices == 3       \* SpecCalls: vertex counts 0..MaxVertices for the assembler
InUseAxis == 1024      \* SpecCalls: largest axis of the dimensions taken to be in use

Entities == {"field", "second", "camera"}

\* Spec: the entity that setup spawns with a DensityField.
SpawnedWithField == {"field"}

\* SpecAlloc: the entities that user systems spawn with a DensityField.
FieldEntities == {"field", "second"}

----------------------------------------------------------------------------
(* Program constants.                                                      *)
WORKGROUP_SIZE == 8
ScanWorkgroupSize == 256
BufferCount == 11

----------------------------------------------------------------------------
(* DensityFieldSize (cpu_data.rs).  A size is <<x, y, z>>.                  *)
(* u32 values too large for 32-bit signed integers are kept as four       *)
(* base-256 digits, least significant first.                               *)
SaturatingSub(a, b) == IF a >= b THEN a - b ELSE 0

ToU32(n) == <<n % 256, (n \div 256) % 256, (n \div 65536) % 256, (n \div 16777216) % 256>>
FromU32(A) == A[1] + 256 * A[2] + 65536 * A[3] + 16777216 * A[4]

\* Column k of the schoolbook product of digit sequences A and B.
RECURSIVE DigitColumn(_, _, _, _)
DigitColumn(A, B, k, i) ==
    IF i > Len(A) THEN 0
    ELSE (IF k - i + 1 >= 1 /\ k - i + 1 <= Len(B) THEN A[i] * B[k - i + 1] ELSE 0)
            + DigitColumn(A, B, k, i + 1)

RECURSIVE DigitCarry(_, _, _, _)
DigitCarry(A, B, k, carry) ==
    IF k > Len(A) + Len(B) THEN <<>>
    ELSE LET t == DigitColumn(A, B, k, 1) + carry
         IN  <<t % 256>> \o DigitCarry(A, B, k + 1, t \div 256)

\* The exact product, Len(A) + Len(B) digits long.
ExactMul(A, B) == DigitCarry(A, B, 1, 0)

\* u32 `*`: the low 32 bits of the product, and whether bits were lost.
WrappingMul(A, B) == SubSeq(ExactMul(A, B), 1, 4)
MulOverflows(A, B) == \E k \in 5..8 : ExactMul(A, B)[k] # 0

RECURSIVE DigitAdd(_, _, _, _)
DigitAdd(A, B, k, carry) ==
    IF k > Len(A) THEN <<>>
    ELSE LET t == A[k] + B[k] + carry
         IN  <<t % 256>> \o DigitAdd(A, B, k + 1, t \div 256)

\* u32 `+`, low 32 bits.
WrappingAdd(A, B) == DigitAdd(A, B, 1, 0)

RECURSIVE DigitSub(_, _, _, _)
DigitSub(A, B, k, borrow) ==
    IF k > Len(A) THEN <<>>
    ELSE LET t == A[k] - B[k] - borrow
         IN  <<IF t < 0 THEN t + 256 ELSE t>>
                \o DigitSub(A, B, k + 1, IF t < 0 THEN 1 ELSE 0)

DigitLess(A, B) ==
    \E k \in 1..Len(A) : A[k] < B[k] /\ \A j \in (k + 1)..Len(A) : A[j] = B[j]

\* u32::saturating_sub.
saturating_sub(A, B) == IF DigitLess(A, B) THEN ToU32(0) ELSE DigitSub(A, B, 1, 0)

(* DensityFieldSize on u32 digits: D is <<X, Y, Z>>.                        *)
density_count_u32(D) == WrappingMul(WrappingMul(D[1], D[2]), D[3])

density_count_overflows(D) ==
    MulOverflows(D[1], D[2]) \/ MulOverflows(WrappingMul(D[1], D[2]), D[3])

\* The index formula with the two strides exchanged.
index_strides_swapped(D, X, Y, Z) ==
    WrappingAdd(WrappingAdd(WrappingMul(WrappingMul(Z, D[2]), D[1]),
                            WrappingMul(Y, D[2])), X)

index_u32(D, X, Y, Z) ==
    WrappingAdd(WrappingAdd(WrappingMul(WrappingMul(Z, D[2]), D[1]),
                            WrappingMul(Y, D[1])), X)

\* cell_count without the saturating_sub(1) on each axis.
cell_count_of_samples(D) == WrappingMul(WrappingMul(D[1], D[2]), D[3])

cell_count_u32(D) ==
    WrappingMul(WrappingMul(saturating_sub(D[1], ToU32(1)), saturating_sub(D[2], ToU32(1))),
                saturating_sub(D[3], ToU32(1)))

cell_count_overflows(D) ==
    \/ MulOverflows(saturating_sub(D[1], ToU32(1)), saturating_sub(D[2], ToU32(1)))
    \/ MulOverflows(WrappingMul(saturating_sub(D[1], ToU32(1)),
                                saturating_sub(D[2], ToU32(1))),
                    saturating_sub(D[3], ToU32(1)))

(* The same functions on the small sizes of the pipeline model, where a   *)
(* size is <<x, y, z>> of plain integers.                                  *)
Digits3(d) == <<ToU32(d[1]), ToU32(d[2]), ToU32(d[3])>>

density_count(d) == FromU32(density_count_u32(Digits3(d)))

index(d, x, y, z) == FromU32(index_u32(Digits3(d), ToU32(x), ToU32(y), ToU32(z)))

cell_count(d) == FromU32(cell_count_u32(Digits3(d)))

----------------------------------------------------------------------------
(* SurfaceNetsBuffers (buffers.rs).  The eleven buffers, in the order the   *)
(* struct literal adds them to Assets<ShaderStorageBuffer>.                *)
BufferOrder ==
    <<"density_field", "vertices", "vertex_valid", "vertex_indices",
      "vertex_count", "compacted_vertices", "faces", "face_valid",
      "face_indices", "face_count", "compacted_faces">>

BufferNames == {BufferOrder[i] : i \in 1..BufferCount}

BufferPos(name) == CHOOSE i \in 1..BufferCount : BufferOrder[i] = name

NoStorage == [n \in BufferNames |-> <<>>]

\* Handles of Assets<ShaderStorageBuffer> are numbered in the order of the
\* add calls.  No handle is ever dropped, so the assets added so far are the
\* handles held by the SurfaceNetsBuffers components.
LiveHandles(bufs) ==
    UNION {{Get(bufs[e]).handles[n] : n \in BufferNames} :
              e \in {x \in Entities : IsSome(bufs[x])}}

AssetsAdded(bufs) == Cardinality(LiveHandles(bufs))

\* The struct literal of SurfaceNetsBuffers::new: eleven buffers.add calls in
\* field order, the first of them returning handle number first.
NewHandles(first) == [n \in BufferNames |-> first + BufferPos(n) - 1]

\* As NewStorage, with each count scalar initialised to the length of its
\* element array instead of to zero.
NewStorageCountsUnzeroed(field, d) ==
    LET cells == cell_count(d)
        max_faces == cells * 3
    IN  [n \in BufferNames |->
            CASE n = "density_field"      -> field
              [] n = "vertices"           -> Zeros(cells * 3)
              [] n = "vertex_valid"       -> Zeros(cells)
              [] n = "vertex_indices"     -> Zeros(cells)
              [] n = "vertex_count"       -> <<cells * 3>>
              [] n = "compacted_vertices" -> Zeros(cells * 3)
              [] n = "faces"              -> Zeros(max_faces * 4)
              [] n = "face_valid"         -> Zeros(max_faces)
              [] n = "face_indices"       -> Zeros(max_faces)
              [] n = "face_count"         -> <<max_faces * 4>>
              [] OTHER                    -> Zeros(max_faces * 4)]

\* SurfaceNetsBuffers::new: every working buffer is created zero-filled,
\* sized from cell_count and max_faces = cell_count * 3.
NewStorage(field, d) ==
    LET cells == cell_count(d)
        max_faces == cells * 3
    IN  [n \in BufferNames |->
            CASE n = "density_field"      -> field
              [] n = "vertices"           -> Zeros(cells * 3)
              [] n = "vertex_valid"       -> Zeros(cells)
              [] n = "vertex_indices"     -> Zeros(cells)
              [] n = "vertex_count"       -> Zeros(1)
              [] n = "compacted_vertices" -> Zeros(cells * 3)
              [] n = "faces"              -> Zeros(max_faces * 4)
              [] n = "face_valid"         -> Zeros(max_faces)
              [] n = "face_indices"       -> Zeros(max_faces)
              [] n = "face_count"         -> Zeros(1)
              [] OTHER                    -> Zeros(max_faces * 4)]

----------------------------------------------------------------------------
(* Pipelines and stages (pipeline.rs, node.rs).                            *)
Pipelines ==
    {"generate_vertices", "prefix_sum", "compact_vertices", "generate_faces",
     "compact_faces"}

StageOrder ==
    <<"generate_vertices", "prefix_sum_vertices", "compact_vertices",
      "generate_faces", "prefix_sum_faces", "compact_faces">>

Stages == {StageOrder[i] : i \in 1..6}

StagePos(st) == CHOOSE i \in 1..6 : StageOrder[i] = st

\* The pipeline SurfaceNetsNode::run looks up before dispatching a stage.
StagePipeline(st) ==
    CASE st = "prefix_sum_vertices" -> "prefix_sum"
      [] st = "prefix_sum_faces"    -> "prefix_sum"
      [] OTHER                      -> st

\* prepare_bind_groups: the storage buffers each bind group binds, in
\* binding order (the dimensions uniform is built from buffers.dimensions).
BindGroupEntries(st) ==
    CASE st = "generate_vertices" ->
            <<"density_field", "vertices", "vertex_valid">>
      [] st = "prefix_sum_vertices" ->
            <<"vertex_valid", "vertex_indices", "vertex_count">>
      [] st = "compact_vertices" ->
            <<"vertices", "vertex_valid", "vertex_indices", "compacted_vertices">>
      [] st = "generate_faces" ->
            <<"vertex_valid", "vertex_indices", "faces", "face_valid">>
      [] st = "prefix_sum_faces" ->
            <<"face_valid", "face_indices", "face_count">>
      [] OTHER ->
            <<"faces", "face_valid", "face_indices", "compacted_faces">>

\* Every storage binding declared with storage_buffer (read-write).
LayoutAccessAllWritable(p) ==
    CASE p = "generate_vertices" -> <<"read_write", "read_write", "read_write">>
      [] p = "prefix_sum"        -> <<"read_write", "read_write", "read_write">>
      [] OTHER -> <<"read_write", "read_write", "read_write", "read_write">>

\* init_surface_nets_pipelines: the storage bindings of each bind group
\* layout, in binding order: storage_buffer_read_only or storage_buffer.
LayoutAccess(p) ==
    CASE p = "generate_vertices" -> <<"read_only", "read_write", "read_write">>
      [] p = "prefix_sum"        -> <<"read_only", "read_write", "read_write">>
      [] p = "compact_vertices"  -> <<"read_only", "read_only", "read_only", "read_write">>
      [] p = "generate_faces"    -> <<"read_only", "read_only", "read_write", "read_write">>
      [] OTHER                   -> <<"read_only", "read_only", "read_only", "read_write">>

\* Workgroup counts computed per entity in SurfaceNetsNode::run.
workgroup_count_3d(d) ==
    <<(d[1] + WORKGROUP_SIZE - 1) \div WORKGROUP_SIZE,
      (d[2] + WORKGROUP_SIZE - 1) \div WORKGROUP_SIZE,
      (d[3] + WORKGROUP_SIZE - 1) \div WORKGROUP_SIZE>>

\* The 1-D workgroup count rounded down instead of up.
workgroup_count_1d_floor(n) == n \div 256

workgroup_count_1d(n) == (n + 255) \div 256

face_workgroups(cells) == workgroup_count_1d(cells * 3)

(* The same counts on u32 digits, where the sums and the product can wrap. *)
AddOverflows(A, B) == DigitLess(WrappingAdd(A, B), A)

\* u32 `-`, low 32 bits.
WrappingSub(A, B) == DigitSub(A, B, 1, 0)

\* Long division of a digit sequence by a small divisor, from the most
\* significant digit i down, rem being the remainder carried so far.
RECURSIVE DigitDiv(_, _, _, _)
DigitDiv(A, k, i, rem) ==
    IF i < 1 THEN <<>>
    ELSE LET cur == rem * 256 + A[i]
         IN  DigitDiv(A, k, i - 1, cur % k) \o <<cur \div k>>

\* u32 `/` by a small constant.
DivU32(A, k) == DigitDiv(A, k, Len(A), 0)

\* The per-axis count rounded down: dims.x / WORKGROUP_SIZE.
workgroup_count_axis_floor(X) == DivU32(X, WORKGROUP_SIZE)

\* (dims.x + WORKGROUP_SIZE - 1) / WORKGROUP_SIZE.
workgroup_count_axis(X) ==
    DivU32(WrappingSub(WrappingAdd(X, ToU32(WORKGROUP_SIZE)), ToU32(1)), WORKGROUP_SIZE)

workgroup_count_axis_overflows(X) == AddOverflows(X, ToU32(WORKGROUP_SIZE))

workgroup_count_3d_u32(D) ==
    <<workgroup_count_axis(D[1]), workgroup_count_axis(D[2]), workgroup_count_axis(D[3])>>

\* (cell_count + 255) / 256.
workgroup_count_1d_u32(N) == DivU32(WrappingAdd(N, ToU32(255)), ScanWorkgroupSize)

workgroup_count_1d_overflows(N) == AddOverflows(N, ToU32(255))

\* let max_faces = cell_count * 3.
max_faces_u32(C) == WrappingMul(C, ToU32(3))

max_faces_overflows(C) == MulOverflows(C, ToU32(3))

\* let face_workgroups = (max_faces + 255) / 256.
face_workgroups_u32(C) == workgroup_count_1d_u32(max_faces_u32(C))

----------------------------------------------------------------------------
(* What the launched threads of each shader do.                            *)
Flag(x) == IF x # 0 THEN 1 ELSE 0

CellsX(d) == SaturatingSub(d[1], 1)
CellsY(d) == SaturatingSub(d[2], 1)
CellsZ(d) == SaturatingSub(d[3], 1)

CellX(d, c) == c % CellsX(d)
CellY(d, c) == (c \div CellsX(d)) % CellsY(d)
CellZ(d, c) == c \div (CellsX(d) * CellsY(d))
CellIndex(d, x, y, z) == z * CellsY(d) * CellsX(d) + y * CellsX(d) + x

\* A 3-D dispatch of wg workgroups of 8x8x8 threads launches thread (x, y, z)
\* iff each coordinate is below 8 * wg on its axis.
Launched3(d, wg, c) ==
    /\ CellX(d, c) < WORKGROUP_SIZE * wg[1]
    /\ CellY(d, c) < WORKGROUP_SIZE * wg[2]
    /\ CellZ(d, c) < WORKGROUP_SIZE * wg[3]

\* The shader's own cell count and linear index of grid point (x, y, z), z-major.
Cells(d) == CellsX(d) * CellsY(d) * CellsZ(d)

LinearIndex(d, x, y, z) == z * d[2] * d[1] + y * d[1] + x

Sample(field, d, x, y, z) ==
    LET i == LinearIndex(d, x, y, z) + 1
    IN  IF i <= Len(field) THEN field[i] ELSE 0

\* Sign change among the eight corner samples of cell c (isovalue 0).
CellCrossed(field, d, c) ==
    LET corners == {Sample(field, d, CellX(d, c) + dx, CellY(d, c) + dy,
                           CellZ(d, c) + dz) :
                        dx \in 0..1, dy \in 0..1, dz \in 0..1}
    IN  (\E v \in corners : v < 0) /\ (\E v \in corners : v >= 0)

\* Representative surface point of a crossed cell, in half-cell units.
CellPoint(d, c) == <<2 * CellX(d, c) + 1, 2 * CellY(d, c) + 1, 2 * CellZ(d, c) + 1>>

\* generate_vertices: one thread per cell writes its validity flag and, for
\* a crossed cell, its position.
GenerateVertices(s, bg, d, wg) ==
    LET field == s[bg[1]]
        written == {c \in 0..(Cells(d) - 1) : Launched3(d, wg, c)}
        crossed == {c \in written : CellCrossed(field, d, c)}
    IN  [s EXCEPT
            ![bg[2]] = [i \in 1..Len(s[bg[2]]) |->
                IF (i - 1) \div 3 \in crossed
                THEN CellPoint(d, (i - 1) \div 3)[((i - 1) % 3) + 1]
                ELSE s[bg[2]][i]],
            ![bg[3]] = [i \in 1..Len(s[bg[3]]) |->
                IF i - 1 \in written
                THEN (IF i - 1 \in crossed THEN 1 ELSE 0)
                ELSE s[bg[3]][i]]]

\* Exclusive prefix sum of the first n flags of v.
RECURSIVE ScanRange(_, _, _, _)
\* Entries lo..hi of the exclusive scan, given the number of set flags
\* before lo (halving keeps the evaluation depth logarithmic).
ScanRange(v, lo, hi, before) ==
    IF lo > hi THEN <<>>
    ELSE IF lo = hi THEN <<before>>
    ELSE LET mid == (lo + hi) \div 2
             left == ScanRange(v, lo, mid, before)
         IN  left \o ScanRange(v, mid + 1, hi, left[Len(left)] + Flag(v[mid]))

ExclusiveScan(v, n) == ScanRange(v, 1, n, 0)

\* prefix_sum: wg workgroups of 256 threads; thread i < N writes index[i],
\* and the total of the launched range is written to the count scalar.
PrefixSum(s, bg, wg) ==
    LET valid == s[bg[1]]
        L == Min(Len(valid), ScanWorkgroupSize * wg)
        scan == ExclusiveScan(valid, L)
        total == IF L = 0 THEN 0 ELSE scan[L] + Flag(valid[L])
    IN  IF wg = 0 THEN s
        ELSE [s EXCEPT
                ![bg[2]] = [i \in 1..Len(s[bg[2]]) |->
                                IF i <= L THEN scan[i] ELSE s[bg[2]][i]],
                ![bg[3]] = [i \in 1..Len(s[bg[3]]) |->
                                IF i = 1 THEN total ELSE s[bg[3]][i]]]

\* Threads (1-based) of a compaction dispatch whose flag is set.
Writers(s, bg, wg) ==
    {i \in 1..Min(Len(s[bg[2]]), ScanWorkgroupSize * wg) :
        s[bg[2]][i] # 0 /\ i <= Len(s[bg[3]])}

\* Most threads writing one slot in a compaction dispatch: more than one is
\* a data race on that slot.
MaxWriters(s, bg, wg) ==
    LET W == Writers(s, bg, wg)
        sizes == {Cardinality({j \in W : s[bg[3]][j] = s[bg[3]][i]}) : i \in W}
    IN  IF sizes = {} THEN 0 ELSE CHOOSE m \in sizes : \A k \in sizes : k <= m

\* The write that lands last in a slot; seed ranges over the thread orders.
Winner(W, seed) ==
    CHOOSE i \in W : Cardinality({j \in W : j < i}) = seed % Cardinality(W)

\* compact_*: thread i with a set flag copies element i (width words) to
\* dense[index[i]]; threads with a clear flag write nothing.
Compact(s, bg, wg, width, seed) ==
    LET source == s[bg[1]]
        slotOf == s[bg[3]]
        W == Writers(s, bg, wg)
        last == [slot \in {slotOf[i] : i \in W} |->
                    Winner({i \in W : slotOf[i] = slot}, seed)]
    IN  [s EXCEPT
            ![bg[4]] = [j \in 1..Len(s[bg[4]]) |->
                LET slot == (j - 1) \div width
                IN  IF /\ slot \in DOMAIN last
                       /\ (last[slot] - 1) * width + ((j - 1) % width) + 1 <= Len(source)
                    THEN source[(last[slot] - 1) * width + ((j - 1) % width) + 1]
                    ELSE s[bg[4]][j]]]

\* The four cells around the dual edge of candidate (cell c, axis a), or {}
\* as soon as one of them lies outside the grid.
QuadCells(d, c, axis) ==
    LET x == CellX(d, c)
        y == CellY(d, c)
        z == CellZ(d, c)
    IN  CASE axis = 0 ->
                IF y >= 1 /\ z >= 1
                THEN <<CellIndex(d, x, y, z), CellIndex(d, x, y - 1, z),
                       CellIndex(d, x, y - 1, z - 1), CellIndex(d, x, y, z - 1)>>
                ELSE <<>>
          [] axis = 1 ->
                IF x >= 1 /\ z >= 1
                THEN <<CellIndex(d, x, y, z), CellIndex(d, x, y, z - 1),
                       CellIndex(d, x - 1, y, z - 1), CellIndex(d, x - 1, y, z)>>
                ELSE <<>>
          [] OTHER ->
                IF x >= 1 /\ y >= 1
                THEN <<CellIndex(d, x, y, z), CellIndex(d, x - 1, y, z),
                       CellIndex(d, x - 1, y - 1, z), CellIndex(d, x, y - 1, z)>>
                ELSE <<>>

\* generate_faces: one thread per cell, three candidates per cell; a
\* candidate is valid iff its four cells exist and all have a valid vertex
\* (the bind group gives the shader no access to the density field).
GenerateFaces(s, bg, d, wg) ==
    LET vvalid == s[bg[1]]
        vindex == s[bg[2]]
        written == {c \in 0..(Cells(d) - 1) : Launched3(d, wg, c)}
        quad == [f \in {g \in 0..(Len(s[bg[4]]) - 1) : g \div 3 \in written} |->
                    LET q == QuadCells(d, f \div 3, f % 3)
                    IN  IF /\ q # <<>>
                           /\ \A k \in 1..4 :
                                 /\ q[k] + 1 <= Len(vvalid)
                                 /\ vvalid[q[k] + 1] # 0
                                 /\ q[k] + 1 <= Len(vindex)
                        THEN q
                        ELSE <<>>]
    IN  [s EXCEPT
            ![bg[3]] = [j \in 1..Len(s[bg[3]]) |->
                LET f == (j - 1) \div 4
                IN  IF f \in DOMAIN quad /\ quad[f] # <<>>
                    THEN vindex[quad[f][((j - 1) % 4) + 1] + 1]
                    ELSE s[bg[3]][j]],
            ![bg[4]] = [f \in 1..Len(s[bg[4]]) |->
                IF f - 1 \in DOMAIN quad
                THEN (IF quad[f - 1] # <<>> THEN 1 ELSE 0)
                ELSE s[bg[4]][f]]]

----------------------------------------------------------------------------
(* SurfaceNetsNode::run for one entity: each stage is dispatched iff its    *)
(* pipeline is compiled, in the fixed order of the function body.          *)
DispatchedBy(ready) == {st \in Stages : StagePipeline(st) \in ready}

ApplyStage(st, s, d, cells, seed) ==
    LET bg == BindGroupEntries(st)
    IN  CASE st = "generate_vertices" ->
                GenerateVertices(s, bg, d, workgroup_count_3d(d))
          [] st = "prefix_sum_vertices" ->
                PrefixSum(s, bg, workgroup_count_1d(cells))
          [] st = "compact_vertices" ->
                Compact(s, bg, workgroup_count_1d(cells), 3, seed)
          [] st = "generate_faces" ->
                GenerateFaces(s, bg, d, workgroup_count_3d(d))
          [] st = "prefix_sum_faces" ->
                PrefixSum(s, bg, face_workgroups(cells))
          [] OTHER ->
                Compact(s, bg, face_workgroups(cells), 4, seed)

\* Buffer contents after the first k stages of one run.
\* (cells is the entity's cell_count(), computed once per run.)
RECURSIVE RunStages(_, _, _, _, _, _)
RunStages(k, s, d, cells, ready, seed) ==
    IF k = 0 THEN s
    ELSE LET before == RunStages(k - 1, s, d, cells, ready, seed)
         IN  IF StageOrder[k] \in DispatchedBy(ready)
             THEN ApplyStage(StageOrder[k], before, d, cells, seed)
             ELSE before

\* Thread orders that matter in this run: as many as the most threads that
\* race for one slot of a compaction.
RunSeeds(s, d, cells, ready) ==
    LET v == IF "compact_vertices" \in DispatchedBy(ready)
             THEN MaxWriters(RunStages(2, s, d, cells, ready, 0),
                             BindGroupEntries("compact_vertices"),
                             workgroup_count_1d(cells))
             ELSE 0
        f == IF "compact_faces" \in DispatchedBy(ready)
             THEN MaxWriters(RunStages(5, s, d, cells, ready, 0),
                             BindGroupEntries("compact_faces"), face_workgroups(cells))
             ELSE 0
        m == IF v > f THEN v ELSE f
    IN  IF m <= 1 THEN {0} ELSE 0..(m - 1)

----------------------------------------------------------------------------
(* ReadbackBuffers (readback.rs) and the mesh assembler (mesh.rs).         *)
Kinds == {"vertex_count", "vertices", "face_count", "faces"}

EmptyReadback == [k \in Kinds |-> None]

\* The buffer each Readback child entity is spawned on.
ReadbackSource(k) ==
    CASE k = "vertex_count" -> "vertex_count"
      [] k = "vertices"     -> "vertices"
      [] k = "face_count"   -> "face_count"
      [] OTHER              -> "faces"

\* As ReadbackValue, with unwrap_or(1) for a count.
ReadbackValueDefaultOne(k, data) ==
    IF k \in {"vertex_count", "face_count"}
    THEN (IF Len(data) >= 1 THEN data[1] ELSE 1)
    ELSE data

\* What the observer stores: data.get(0).copied().unwrap_or(0) for a count,
\* the whole array otherwise.
ReadbackValue(k, data) ==
    IF k \in {"vertex_count", "face_count"}
    THEN (IF Len(data) >= 1 THEN data[1] ELSE 0)
    ELSE data

\* The observer assigning a fresh ReadbackBuffers that holds only its value.
StoreReadbackInDefault(rb, k, value) == [EmptyReadback EXCEPT ![k] = Some(value)]

\* buffers.<k> = Some(value) on the parent's ReadbackBuffers.
StoreReadback(rb, k, value) == [rb EXCEPT ![k] = Some(value)]

\* The observer without its despawn command.
DespawnSkipped(kids, k) == kids

\* commands.entity(event.entity).despawn(): the parent loses this child.
Despawn(kids, k) == kids \ {k}

\* DensityFieldMeshSize::default.
MeshSize == <<10, 10, 10>>

\* scale = mesh_size / dimensions.as_vec3(): per axis a fraction kept as
\* <<numerator, denominator>> (a zero denominator is the infinity or NaN the
\* f32 division gives).
Scale(mesh_size, d) == <<<<mesh_size[1], d[1]>>, <<mesh_size[2], d[2]>>,
                         <<mesh_size[3], d[3]>>>>

\* The scale added to the grid position instead of multiplied with it.
WorldPosOffset(g, scale) ==
    <<<<g[1] * scale[1][2] + scale[1][1], scale[1][2]>>,
      <<g[2] * scale[2][2] + scale[2][1], scale[2][2]>>,
      <<g[3] * scale[3][2] + scale[3][1], scale[3][2]>>>>

\* world_pos = grid_pos * scale, per axis a fraction.
WorldPos(g, scale) ==
    <<<<g[1] * scale[1][1], scale[1][2]>>, <<g[2] * scale[2][1], scale[2][2]>>,
      <<g[3] * scale[3][1], scale[3][2]>>>>

\* The guard with base + 3 in place of base + 2.
vertex_in_bounds_strict(base, len) == base + 3 < len

\* if base + 2 < vertices.len().
vertex_in_bounds(base, len) == base + 2 < len

RECURSIVE world_positions(_, _, _, _)
world_positions(i, vertex_count, vertices, scale) ==
    IF i >= vertex_count THEN <<>>
    ELSE LET base == i * 3
             here == IF vertex_in_bounds(base, Len(vertices))
                     THEN <<WorldPos(<<vertices[base + 1], vertices[base + 2],
                                       vertices[base + 3]>>, scale)>>
                     ELSE <<>>
         IN  here \o world_positions(i + 1, vertex_count, vertices, scale)

\* A quad split along its other diagonal.
QuadTrianglesOtherDiagonal(v0, v1, v2, v3) == <<v0, v1, v3, v1, v2, v3>>

\* Triangle 1 and triangle 2 of a quad.
QuadTriangles(v0, v1, v2, v3) == <<v0, v1, v2, v0, v2, v3>>

RECURSIVE triangle_indices(_, _, _)
triangle_indices(i, face_count, faces) ==
    IF i >= face_count THEN <<>>
    ELSE LET base == i * 4
             here == IF base + 3 < Len(faces)
                     THEN QuadTriangles(faces[base + 1], faces[base + 2],
                                        faces[base + 3], faces[base + 4])
                     ELSE <<>>
         IN  here \o triangle_indices(i + 1, face_count, faces)

(* compute_flat_normals.  Vectors are integer triples; the inputs keep     *)
(* every triangle in a coordinate plane, so each face normal is an axis    *)
(* vector or zero and sums of face normals stay integral.                  *)
Sub3(a, b) == <<a[1] - b[1], a[2] - b[2], a[3] - b[3]>>
Add3(a, b) == <<a[1] + b[1], a[2] + b[2], a[3] + b[3]>>
Scale3(k, a) == <<k * a[1], k * a[2], k * a[3]>>
Cross(a, b) == <<a[2] * b[3] - a[3] * b[2], a[3] * b[1] - a[1] * b[3],
                 a[1] * b[2] - a[2] * b[1]>>
Sgn(x) == IF x > 0 THEN 1 ELSE IF x < 0 THEN -1 ELSE 0

\* Vec3::normalize_or_zero: exact for a vector along one axis; any other
\* direction is kept symbolically.
normalize_or_zero(v) ==
    IF Cardinality({i \in 1..3 : v[i] # 0}) <= 1
    THEN <<Sgn(v[1]), Sgn(v[2]), Sgn(v[3])>>
    ELSE [unit_of |-> v]

\* One normal slot per triangle instead of one per position.
NormalSlotsPerTriangle(positions, indices) == Len(indices) \div 3

\* vec![[0.0, 0.0, 0.0]; positions.len()]
NormalSlots(positions, indices) == Len(positions)

\* normals and normal_counts after the first k chunks of three indices.
RECURSIVE AccumulateNormals(_, _, _)
AccumulateNormals(positions, indices, k) ==
    IF k = 0
    THEN [normals |-> [i \in 1..NormalSlots(positions, indices) |-> <<0, 0, 0>>],
          normal_counts |-> [i \in 1..NormalSlots(positions, indices) |-> 0]]
    ELSE LET acc == AccumulateNormals(positions, indices, k - 1)
             i0 == indices[3 * k - 2]
             i1 == indices[3 * k - 1]
             i2 == indices[3 * k]
             n == Len(positions)
         IN  IF i0 >= n \/ i1 >= n \/ i2 >= n
             THEN acc
             ELSE LET v0 == positions[i0 + 1]
                      normal == normalize_or_zero(
                                    Cross(Sub3(positions[i1 + 1], v0),
                                          Sub3(positions[i2 + 1], v0)))
                      times == [i \in DOMAIN acc.normals |->
                                  Cardinality({c \in 1..3 :
                                      <<i0, i1, i2>>[c] = i - 1})]
                  IN  [normals |-> [i \in DOMAIN acc.normals |->
                                       Add3(acc.normals[i], Scale3(times[i], normal))],
                       normal_counts |-> [i \in DOMAIN acc.normal_counts |->
                                       acc.normal_counts[i] + times[i]]]

\* Dividing by the positive count does not change the direction that
\* normalize_or_zero returns.
compute_flat_normals(positions, indices) ==
    LET acc == AccumulateNormals(positions, indices, Len(indices) \div 3)
    IN  [i \in DOMAIN acc.normals |->
            IF acc.normal_counts[i] > 0
            THEN normalize_or_zero(acc.normals[i])
            ELSE acc.normals[i]]

\* The let-else chain without its last arm (faces).
BuildReadyLax(rb) ==
    /\ IsSome(rb["vertex_count"])
    /\ IsSome(rb["vertices"])
    /\ IsSome(rb["face_count"])

\* The let-else chain at the top of the loop body: all four values are Some.
BuildReady(rb) ==
    /\ IsSome(rb["vertex_count"])
    /\ IsSome(rb["vertices"])
    /\ IsSome(rb["face_count"])
    /\ IsSome(rb["faces"])

\* The value a let-else binds (the else branch leaves the loop body).
Bound(o, otherwise) == IF IsSome(o) THEN Get(o) ELSE otherwise

\* The loops run over the whole arrays instead of the two counts.
BuildMeshWholeArrays(rb, mesh_size, d) ==
    [positions |-> world_positions(0, Len(Bound(rb["vertices"], <<>>)) \div 3,
                                   Bound(rb["vertices"], <<>>), Scale(mesh_size, d)),
     indices   |-> triangle_indices(0, Len(Bound(rb["faces"], <<>>)) \div 4,
                                    Bound(rb["faces"], <<>>))]

BuildMesh(rb, mesh_size, d) ==
    [positions |-> world_positions(0, Bound(rb["vertex_count"], 0),
                                   Bound(rb["vertices"], <<>>), Scale(mesh_size, d)),
     indices   |-> triangle_indices(0, Bound(rb["face_count"], 0),
                                    Bound(rb["faces"], <<>>))]

----------------------------------------------------------------------------
(* Inputs.                                                                 *)
FieldSplit == <<-1, -1, -1, -1, 1, 1, 1, 1>>
\* 3 x 3 x 2 samples, negative only at grid point (1, 1, 0).
FieldDent == [i \in 1..18 |-> IF i = 5 THEN -1 ELSE 1]

\* 3 x 2 x 2 samples, all positive.
FieldPositive == [i \in 1..12 |-> 1]

Inputs ==
    {[dims |-> <<3, 3, 2>>, field |-> FieldDent],
     [dims |-> <<3, 2, 2>>, field |-> FieldPositive],
     [dims |-> <<2, 2, 2>>, field |-> FieldSplit],
     [dims |-> <<2, 2, 2>>, field |-> FieldDent]}

ScanLens == (0..SmallScanLen) \cup ((ScanWorkgroupSize - 6)..MaxScanLen)

InitWorld(inp) ==
    /\ dimensions = inp.dims
    /\ density = [e \in Entities |-> IF e \in SpawnedWithField THEN Some(inp.field) ELSE None]
    /\ buffers = [e \in Entities |-> None]
    /\ ssbo = [e \in Entities |-> NoStorage]
    /\ added = [e \in Entities |-> FALSE]
    /\ gpu_ready = [e \in Entities |-> 0]
    /\ bind_groups = [e \in Entities |-> FALSE]
    /\ compiled = {}
    /\ children = [e \in Entities |-> {}]
    /\ readback = [e \in Entities |-> None]
    /\ mesh = [e \in Entities |-> None]
    /\ dispatched = [e \in Entities |-> {}]
    /\ captured_from = [e \in Entities |-> None]
    /\ mixed = [e \in Entities |-> FALSE]

InitScanIdle ==
    /\ scan_valid = <<>>
    /\ scan_out = [indices |-> <<>>, count |-> <<0>>]
    /\ scan_pc = "idle"

InitCallIdle ==
    /\ call_args = <<>>
    /\ call_ret = <<>>
    /\ call_pc = "idle"

Init == (\E inp \in Inputs : InitWorld(inp)) /\ InitScanIdle /\ InitCallIdle

----------------------------------------------------------------------------
(* Systems, observers and the render node.                                 *)

\* As needs_mesh_query, without the Without<SurfaceNetsBuffers> filter.
needs_mesh_query_without_mesh_only(e) ==
    IsSome(density[e]) /\ mesh[e] = None

\* needs_mesh_query: (Entity, &DensityField) filtered by
\* (Without<SurfaceNetsBuffers>, Without<Mesh3d>).
needs_mesh_query(e) ==
    IsSome(density[e]) /\ buffers[e] = None /\ mesh[e] = None

\* prepare_surface_nets_buffers: every entity of needs_mesh_query gets new
\* buffers, in the order the query iterates (rank), each call of
\* SurfaceNetsBuffers::new adding eleven assets.
prepare_surface_nets_buffers ==
    LET targets == {e \in Entities : needs_mesh_query(e)}
        ranks == {r \in [targets -> 1..Cardinality(targets)] :
                     \A a, b \in targets : a # b => r[a] # r[b]}
        base == AssetsAdded(buffers)
    IN  /\ targets # {}
        /\ \E rank \in ranks :
              buffers' = [e \in Entities |->
                IF e \in targets
                THEN Some([dimensions |-> dimensions,
                           handles |-> NewHandles(base + BufferCount * (rank[e] - 1) + 1)])
                ELSE buffers[e]]
        /\ ssbo' = [e \in Entities |->
                IF e \in targets THEN NewStorage(Get(density[e]), dimensions) ELSE ssbo[e]]
        /\ added' = [e \in Entities |-> IF e \in targets THEN TRUE ELSE added[e]]
        /\ UNCHANGED <<dimensions, density, gpu_ready, bind_groups, compiled, children,
                       readback, mesh, dispatched, captured_from, mixed>>
        /\ UNCHANGED <<scanVars, callVars>>

\* The render world prepares the entity's buffer assets in creation order: a
\* frame prepares the whole batch, or cuts it after PartialBatch buffers.
Ready(e, name) == BufferPos(name) <= gpu_ready[e]

GpuBuffersPrepared(e, n) ==
    /\ IsSome(buffers[e])
    /\ n > gpu_ready[e]
    /\ gpu_ready' = [gpu_ready EXCEPT ![e] = n]
    /\ UNCHANGED <<dimensions, density, buffers, ssbo, added, bind_groups, compiled,
                   children, readback, mesh, dispatched, captured_from, mixed>>
    /\ UNCHANGED <<scanVars, callVars>>

\* The PipelineCache finishes compiling one queued pipeline.
PipelineCompiled(p) ==
    /\ p \notin compiled
    /\ compiled' = compiled \cup {p}
    /\ UNCHANGED <<dimensions, density, buffers, ssbo, added, gpu_ready, bind_groups,
                   children, readback, mesh, dispatched, captured_from, mixed>>
    /\ UNCHANGED <<scanVars, callVars>>

\* As new_buffers, without the Added<SurfaceNetsBuffers> filter.
new_buffers_not_only_added(e) ==
    IsSome(buffers[e]) /\ readback[e] = None

\* new_buffers: (Entity, &SurfaceNetsBuffers) filtered by
\* (Added<SurfaceNetsBuffers>, Without<ReadbackBuffers>).
new_buffers(e) ==
    IsSome(buffers[e]) /\ added[e] /\ readback[e] = None

\* setup_readback_for_new_fields: every entity of new_buffers gets four
\* Readback children and an empty ReadbackBuffers.
setup_readback_for_new_fields ==
    LET targets == {e \in Entities : new_buffers(e)}
    IN  /\ \E e \in Entities : added[e]
        /\ added' = [e \in Entities |-> FALSE]
        /\ readback' = [e \in Entities |->
                IF e \in targets THEN Some(EmptyReadback) ELSE readback[e]]
        /\ children' = [e \in Entities |->
                IF e \in targets THEN Kinds ELSE children[e]]
        /\ UNCHANGED <<dimensions, density, buffers, ssbo, gpu_ready, bind_groups,
                       compiled, mesh, dispatched, captured_from, mixed>>
        /\ UNCHANGED <<scanVars, callVars>>

\* The let-else chain cut after its first arm (density_field).
FirstBufferReady(e) == Ready(e, "density_field")

\* prepare_bind_groups: skip the entity unless all eleven GPU buffers are ready.
AllBuffersReady(e) == \A name \in BufferNames : Ready(e, name)

prepare_bind_groups ==
    LET targets == {e \in Entities :
                        IsSome(buffers[e]) /\ ~bind_groups[e] /\ AllBuffersReady(e)}
    IN  /\ targets # {}
        /\ bind_groups' = [e \in Entities |-> bind_groups[e] \/ e \in targets]
        /\ UNCHANGED <<dimensions, density, buffers, ssbo, added, gpu_ready, compiled,
                       children, readback, mesh, dispatched, captured_from, mixed>>
        /\ UNCHANGED <<scanVars, callVars>>

\* SurfaceNetsNode::run: every entity with buffers and bind groups.
NodeTargets == {e \in Entities : IsSome(buffers[e]) /\ bind_groups[e]}

NodeSeeds ==
    UNION {RunSeeds(ssbo[e], Get(buffers[e]).dimensions,
                    cell_count(Get(buffers[e]).dimensions), compiled) : e \in NodeTargets}

SurfaceNetsNode_run ==
    /\ NodeTargets # {}
    /\ DispatchedBy(compiled) # {}
    /\ \E seed \in NodeSeeds :
          ssbo' = [e \in Entities |->
                IF e \in NodeTargets
                THEN RunStages(6, ssbo[e], Get(buffers[e]).dimensions,
                               cell_count(Get(buffers[e]).dimensions), compiled, seed)
                ELSE ssbo[e]]
    /\ dispatched' = [e \in Entities |->
            IF e \in NodeTargets THEN dispatched[e] \cup DispatchedBy(compiled)
            ELSE dispatched[e]]
    /\ UNCHANGED <<dimensions, density, buffers, added, gpu_ready, bind_groups, compiled,
                   children, readback, mesh, captured_from, mixed>>
    /\ UNCHANGED <<scanVars, callVars>>

\* The ReadbackComplete observer of the child of kind k of entity e.
ReadbackComplete(e, k) ==
    /\ k \in children[e]
    /\ Ready(e, ReadbackSource(k))
    /\ IsSome(readback[e])
    /\ readback' = [readback EXCEPT ![e] =
            Some(StoreReadback(Get(readback[e]), k,
                               ReadbackValue(k, ssbo[e][ReadbackSource(k)])))]
    /\ children' = [children EXCEPT ![e] = Despawn(children[e], k)]
    /\ captured_from' = [captured_from EXCEPT ![e] =
            IF IsSome(captured_from[e]) THEN captured_from[e] ELSE Some(ssbo[e])]
    /\ mixed' = [mixed EXCEPT ![e] =
            mixed[e] \/ (IsSome(captured_from[e]) /\ Get(captured_from[e]) # ssbo[e])]
    /\ UNCHANGED <<dimensions, density, buffers, ssbo, added, gpu_ready, bind_groups,
                   compiled, mesh, dispatched>>
    /\ UNCHANGED <<scanVars, callVars>>

\* build_mesh_from_readback: every entity with ReadbackBuffers.
build_mesh_from_readback ==
    LET built == {e \in Entities : IsSome(readback[e]) /\ BuildReady(Get(readback[e]))}
    IN  /\ built # {}
        /\ mesh' = [e \in Entities |->
                IF e \in built THEN Some(BuildMesh(Get(readback[e]), MeshSize, dimensions))
                ELSE mesh[e]]
        /\ readback' = [e \in Entities |-> IF e \in built THEN None ELSE readback[e]]
        /\ UNCHANGED <<dimensions, density, buffers, ssbo, added, gpu_ready, bind_groups,
                       compiled, children, dispatched, captured_from, mixed>>
        /\ UNCHANGED <<scanVars, callVars>>

Next ==
    \/ prepare_surface_nets_buffers
    \/ \E e \in Entities, n \in {PartialBatch, BufferCount} : GpuBuffersPrepared(e, n)
    \/ \E p \in Pipelines : PipelineCompiled(p)
    \/ setup_readback_for_new_fields
    \/ prepare_bind_groups
    \/ SurfaceNetsNode_run
    \/ \E e \in Entities, k \in Kinds : ReadbackComplete(e, k)
    \/ build_mesh_from_readback

Spec == Init /\ [][Next]_vars

----------------------------------------------------------------------------
(* SpecAlloc: several DensityField entities spawned while the app runs, as  *)
(* spawn_multiple_meshes of examples/basic.rs spawns them.  No pipeline has *)
(* compiled, so the node dispatches nothing; the systems that create and   *)
(* consume the components of an entity run in any order.                   *)
InitAlloc ==
    /\ \E inp \in Inputs :
          /\ dimensions = inp.dims
          /\ density = [e \in Entities |-> None]
    /\ buffers = [e \in Entities |-> None]
    /\ ssbo = [e \in Entities |-> NoStorage]
    /\ added = [e \in Entities |-> FALSE]
    /\ gpu_ready = [e \in Entities |-> 0]
    /\ bind_groups = [e \in Entities |-> FALSE]
    /\ compiled = {}
    /\ children = [e \in Entities |-> {}]
    /\ readback = [e \in Entities |-> None]
    /\ mesh = [e \in Entities |-> None]
    /\ dispatched = [e \in Entities |-> {}]
    /\ captured_from = [e \in Entities |-> None]
    /\ mixed = [e \in Entities |-> FALSE]
    /\ InitScanIdle
    /\ InitCallIdle

\* commands.spawn((DensityField(..), Transform)): the entity gets a field of
\* the configured dimensions.
spawn_density_field(e) ==
    /\ density[e] = None
    /\ \E inp \in Inputs :
          /\ inp.dims = dimensions
          /\ density' = [density EXCEPT ![e] = Some(inp.field)]
    /\ UNCHANGED <<dimensions, buffers, ssbo, added, gpu_ready, bind_groups, compiled,
                   children, readback, mesh, dispatched, captured_from, mixed>>
    /\ UNCHANGED <<scanVars, callVars>>

NextAlloc ==
    \/ \E e \in FieldEntities : spawn_density_field(e)
    \/ prepare_surface_nets_buffers
    \/ \E e \in Entities, n \in {PartialBatch, BufferCount} : GpuBuffersPrepared(e, n)
    \/ setup_readback_for_new_fields
    \/ prepare_bind_groups
    \/ \E e \in Entities, k \in Kinds : ReadbackComplete(e, k)
    \/ build_mesh_from_readback

SpecAlloc == InitAlloc /\ [][NextAlloc]_vars

----------------------------------------------------------------------------
(* SpecResize: Spec with a user system that writes the DensityFieldSize     *)
(* resource while the app runs, as setup of examples/basic.rs writes it.   *)
InputDims == {inp.dims : inp \in Inputs}

\* *dimensions = DensityFieldSize(UVec3::new(..)), written while the run of
\* some entity is in flight (it has buffers and no mesh yet).
set_dimensions(d) ==
    /\ d # dimensions
    /\ \E e \in Entities : IsSome(buffers[e]) /\ mesh[e] = None
    /\ dimensions' = d
    /\ UNCHANGED <<density, buffers, ssbo, added, gpu_ready, bind_groups, compiled,
                   children, readback, mesh, dispatched, captured_from, mixed>>
    /\ UNCHANGED <<scanVars, callVars>>

NextResize ==
    \/ Next
    \/ \E d \in InputDims : set_dimensions(d)

\* The runs start on the one-cell grid; the resource is then set to any of
\* the input dimensions.
InitResize ==
    /\ \E inp \in {i \in Inputs : i.dims = <<2, 2, 2>>} : InitWorld(inp)
    /\ InitScanIdle
    /\ InitCallIdle

SpecResize == InitResize /\ [][NextResize]_vars

----------------------------------------------------------------------------
(* SpecScan: the prefix-sum stage alone, on validity arrays on both sides  *)
(* of one 256-thread workgroup.                                            *)
ScanPattern(n, k, o) == [i \in 1..n |-> IF (i + o) % k = 0 THEN 1 ELSE 0]

ScanInputs ==
    {ScanPattern(n, k, o) : n \in ScanLens, k \in 1..MaxStride, o \in 0..(MaxStride - 1)}
        \cup {Zeros(n) : n \in ScanLens}

\* The index and count buffers as SurfaceNetsBuffers::new creates them.
InitScan ==
    /\ InitWorld([dims |-> <<2, 2, 2>>, field |-> FieldSplit])
    /\ scan_valid \in ScanInputs
    /\ scan_out = [indices |-> Zeros(Len(scan_valid)), count |-> Zeros(1)]
    /\ scan_pc = "init"
    /\ InitCallIdle

\* Stage 2 / stage 5 of SurfaceNetsNode::run on an array of N flags.
ScanBindGroup == <<"valid", "indices", "count">>

ScanDispatch ==
    /\ scan_pc = "init"
    /\ LET s == [valid |-> scan_valid, indices |-> scan_out.indices,
                 count |-> scan_out.count]
           after == PrefixSum(s, ScanBindGroup, workgroup_count_1d(Len(scan_valid)))
       IN  scan_out' = [indices |-> after.indices, count |-> after.count]
    /\ scan_pc' = "done"
    /\ UNCHANGED scan_valid
    /\ UNCHANGED worldVars
    /\ UNCHANGED callVars

NextScan == ScanDispatch

SpecScan == InitScan /\ [][NextScan]_vars

----------------------------------------------------------------------------
(* SpecCalls: the host-side pure functions, each called once on arguments  *)
(* drawn from bounded sets.                                                *)
IndexInputs ==
    {[fn |-> "index", dims |-> <<x, y, z>>] : x \in 0..MaxDim, y \in 0..MaxDim, z \in 0..MaxDim}

\* u32 dimensions: small, around the cube root of 2^32 (1625.5), at the
\* 16-bit boundary and the largest value.
CountDims ==
    {ToU32(0), ToU32(1), ToU32(2), ToU32(3), ToU32(1625), ToU32(1627), ToU32(65536),
     <<255, 255, 255, 255>>}

CountInputs ==
    {[fn |-> "counts", size |-> <<x, y, z>>] : x \in CountDims, y \in CountDims, z \in CountDims}

\* Face arrays of every length around 4 * face_count, with varied contents.
FaceWords(len, a, b) == [i \in 1..len |-> (a * i + b) % 7]

TriangleInputs ==
    {[fn |-> "triangle_indices", face_count |-> n, faces |-> FaceWords(len, a, b)] :
        n \in 0..MaxFaces, len \in 0..(4 * MaxFaces + 1), a \in 1..3, b \in 0..1}

\* Positions in the plane z = 0, and index lists that hold in-range and
\* out-of-range indices and a trailing incomplete chunk.
PlanePoints == <<<<0, 0, 0>>, <<1, 0, 0>>, <<0, 1, 0>>, <<1, 1, 0>>, <<2, 1, 0>>>>

IndexWords(len, a, b, m) == [i \in 1..len |-> (a * i + b) % m]

NormalInputs ==
    {[fn |-> "compute_flat_normals", positions |-> SubSeq(PlanePoints, 1, n),
      indices |-> IndexWords(len, a, b, m)] :
        n \in 0..Len(PlanePoints), len \in 0..MaxIndexWords, a \in 1..2, b \in 0..2,
        m \in {3, 6}}

\* Grid-space coordinates for vertex arrays of every length around
\* 3 * vertex_count.
GridWords(len, a) == [i \in 1..len |-> (a * i) % 5]

\* Mesh size and dimensions: the default mesh size on the one-cell grid, two
\* pairs with mesh size equal to the dimensions, and a pair that is equal
\* with a zero axis.
AssemblerSizes ==
    {[mesh_size |-> MeshSize, dims |-> <<2, 2, 2>>],
     [mesh_size |-> <<2, 3, 4>>, dims |-> <<2, 3, 4>>],
     [mesh_size |-> <<3, 3, 2>>, dims |-> <<3, 3, 2>>],
     [mesh_size |-> <<0, 3, 2>>, dims |-> <<0, 3, 2>>]}

\* Readback snapshots whose arrays are shorter than, as long as and longer
\* than the counts claim.
AssemblerInputs ==
    {[fn |-> "build_mesh",
      rb |-> [vertex_count |-> Some(n), vertices |-> Some(GridWords(vlen, a)),
              face_count |-> Some(m), faces |-> Some(FaceWords(flen, 1, 0))],
      mesh_size |-> sz.mesh_size, dims |-> sz.dims] :
        n \in 0..MaxVertices, vlen \in 0..(3 * MaxVertices + 1), a \in 1..2,
        m \in 0..MaxFaces, flen \in 0..(4 * MaxFaces + 1), sz \in AssemblerSizes}

\* ReadbackComplete events: payloads of no, one and two words, delivered to
\* a ReadbackBuffers that holds any subset of the other three values.
ReadbackPayloads == {<<>>, <<0>>, <<2>>, <<3, 1>>}

HeldReadback(present) ==
    [k \in Kinds |->
        IF k \notin present THEN None
        ELSE CASE k = "vertex_count" -> Some(1)
               [] k = "vertices"     -> Some(<<1, 1, 1>>)
               [] k = "face_count"   -> Some(1)
               [] OTHER              -> Some(<<0, 0, 0, 0>>)]

ReadbackInputs ==
    UNION {{[fn |-> "ReadbackComplete", kind |-> k, data |-> data,
             rb |-> HeldReadback(present)] :
                data \in ReadbackPayloads, present \in SUBSET (Kinds \ {k})} :
           k \in Kinds}

\* u32 axes for the workgroup counts: around one and two workgroups, the
\* largest axis in use, an axis whose cube of cells times 3 passes 2^32, and
\* the two axes at which dims + WORKGROUP_SIZE passes 2^32.
DispatchDims ==
    {ToU32(0), ToU32(1), ToU32(2), ToU32(8), ToU32(9), ToU32(17), ToU32(257),
     ToU32(InUseAxis), ToU32(1291), <<247, 255, 255, 255>>, <<248, 255, 255, 255>>}

DispatchInputs ==
    {[fn |-> "workgroup_counts", size |-> <<x, y, z>>] :
        x \in DispatchDims, y \in DispatchDims, z \in DispatchDims}

CallInputs ==
    IndexInputs \cup CountInputs \cup TriangleInputs \cup NormalInputs
        \cup AssemblerInputs \cup ReadbackInputs \cup DispatchInputs

InitCalls ==
    /\ InitWorld([dims |-> <<2, 2, 2>>, field |-> FieldSplit])
    /\ InitScanIdle
    /\ call_args \in CallInputs
    /\ call_ret = <<>>
    /\ call_pc = "init"

InBounds(d) ==
    {<<x, y, z>> : x \in 0..(d[1] - 1), y \in 0..(d[2] - 1), z \in 0..(d[3] - 1)}

\* DensityFieldSize::index on every in-bounds coordinate of the grid.
IndexCall ==
    /\ call_pc = "init"
    /\ call_args.fn = "index"
    /\ call_ret' = [c \in InBounds(call_args.dims) |->
                        index(call_args.dims, c[1], c[2], c[3])]
    /\ call_pc' = "done"
    /\ UNCHANGED call_args
    /\ UNCHANGED <<worldVars, scanVars>>

\* density_count() and cell_count(): with overflow checks a product that
\* does not fit panics, without them it wraps.
CountCall(overflow_checks) ==
    /\ call_pc = "init"
    /\ call_args.fn = "counts"
    /\ call_ret' =
          [density_count |->
              IF overflow_checks /\ density_count_overflows(call_args.size)
              THEN "panic" ELSE density_count_u32(call_args.size),
           cell_count |->
              IF overflow_checks /\ cell_count_overflows(call_args.size)
              THEN "panic" ELSE cell_count_u32(call_args.size)]
    /\ call_pc' = "done"
    /\ UNCHANGED call_args
    /\ UNCHANGED <<worldVars, scanVars>>

\* The triangle loop of build_mesh_from_readback.
TriangleCall ==
    /\ call_pc = "init"
    /\ call_args.fn = "triangle_indices"
    /\ call_ret' = triangle_indices(0, call_args.face_count, call_args.faces)
    /\ call_pc' = "done"
    /\ UNCHANGED call_args
    /\ UNCHANGED <<worldVars, scanVars>>

NormalsCall ==
    /\ call_pc = "init"
    /\ call_args.fn = "compute_flat_normals"
    /\ call_ret' = compute_flat_normals(call_args.positions, call_args.indices)
    /\ call_pc' = "done"
    /\ UNCHANGED call_args
    /\ UNCHANGED <<worldVars, scanVars>>

\* The loop body of build_mesh_from_readback on one complete snapshot.
AssemblerCall ==
    /\ call_pc = "init"
    /\ call_args.fn = "build_mesh"
    /\ BuildReady(call_args.rb)
    /\ call_ret' = BuildMesh(call_args.rb, call_args.mesh_size, call_args.dims)
    /\ call_pc' = "done"
    /\ UNCHANGED call_args
    /\ UNCHANGED <<worldVars, scanVars>>

\* One ReadbackComplete observer on the ReadbackBuffers of its parent.
ReadbackCall ==
    /\ call_pc = "init"
    /\ call_args.fn = "ReadbackComplete"
    /\ call_args.rb[call_args.kind] = None
    /\ call_ret' = StoreReadback(call_args.rb, call_args.kind,
                                 ReadbackValue(call_args.kind, call_args.data))
    /\ call_pc' = "done"
    /\ UNCHANGED call_args
    /\ UNCHANGED <<worldVars, scanVars>>

\* The workgroup counts SurfaceNetsNode::run computes for one entity: with
\* overflow checks a sum or product that does not fit panics, without them
\* it wraps.
DispatchCall(overflow_checks) ==
    /\ call_pc = "init"
    /\ call_args.fn = "workgroup_counts"
    /\ LET D == call_args.size
           cells == cell_count_u32(D)
           overflows ==
               \/ \E a \in 1..3 : workgroup_count_axis_overflows(D[a])
               \/ cell_count_overflows(D)
               \/ workgroup_count_1d_overflows(cells)
               \/ max_faces_overflows(cells)
               \/ workgroup_count_1d_overflows(max_faces_u32(cells))
       IN  call_ret' =
             IF overflow_checks /\ overflows
             THEN [panicked |-> TRUE, workgroup_count_3d |-> <<>>,
                   workgroup_count_1d |-> <<>>, face_workgroups |-> <<>>]
             ELSE [panicked |-> FALSE,
                   workgroup_count_3d |-> workgroup_count_3d_u32(D),
                   workgroup_count_1d |-> workgroup_count_1d_u32(cells),
                   face_workgroups |-> face_workgroups_u32(cells)]
    /\ call_pc' = "done"
    /\ UNCHANGED call_args
    /\ UNCHANGED <<worldVars, scanVars>>

NextCalls ==
    \/ IndexCall
    \/ \E overflow_checks \in BOOLEAN : CountCall(overflow_checks)
    \/ TriangleCall
    \/ NormalsCall
    \/ AssemblerCall
    \/ ReadbackCall
    \/ \E overflow_checks \in BOOLEAN : DispatchCall(overflow_checks)

SpecCalls == InitCalls /\ [][NextCalls]_vars

----------------------------------------------------------------------------
(* Properties.                                                             *)

\* C1: a stage is dispatched for an entity only if every stage before it in
\* the sequence generate_vertices, prefix_sum(vertices), compact_vertices,
\* generate_faces, prefix_sum(faces), compact_faces has been dispatched for
\* that entity, whatever subset of the pipelines is compiled.
C1_StagesDispatchedInOrder ==
    \A e \in Entities : \A k \in 1..Len(StageOrder) :
        StageOrder[k] \in dispatched[e] =>
            \A j \in 1..(k - 1) : StageOrder[j] \in dispatched[e]

\* C2: a value is recorded into an entity's ReadbackBuffers only after all
\* six stages have been dispatched at least once for that entity.
C2_ReadbackAfterAllStages ==
    [][\A e \in Entities, k \in Kinds :
          (/\ IsSome(readback[e])
           /\ IsSome(readback'[e])
           /\ Get(readback[e])[k] = None
           /\ Get(readback'[e])[k] # None)
              => dispatched[e] = Stages]_vars

\* C3: the four values a mesh is built from were all captured from the same
\* buffer contents, i.e. no dispatch changed the buffers between the first
\* and the last of the four readback completions.
C3_MeshFromOneExecution ==
    \A e \in Entities : IsSome(mesh[e]) => ~mixed[e]

\* C4: while any of the four readback values of an entity is missing, the
\* entity has no mesh and keeps its ReadbackBuffers; an entity that has a
\* mesh had all four readbacks complete and its ReadbackBuffers removed.
C4_MeshOnlyFromAllFour ==
    \A e \in Entities :
        /\ (IsSome(readback[e]) /\ (\E k \in Kinds : Get(readback[e])[k] = None))
              => mesh[e] = None
        /\ children[e] # {} => (mesh[e] = None /\ IsSome(readback[e]))
        /\ IsSome(mesh[e]) => (children[e] = {} /\ readback[e] = None)

\* C4 witness: a mesh was built although the four values arrived at different
\* times, with a dispatch in between (so builds were skipped while waiting).
C4_Witness ==
    \E e \in Entities :
        /\ IsSome(mesh[e])
        /\ mixed[e]
        /\ readback[e] = None
        /\ Len(Get(mesh[e]).positions) >= 1

\* C5: the vertex and face arrays recorded into ReadbackBuffers are the
\* contents of compacted_vertices and compacted_faces.
C5_ReadbackDeliversCompacted ==
    [][\A e \in Entities :
          (IsSome(readback[e]) /\ IsSome(readback'[e])) =>
              /\ (Get(readback[e])["vertices"] = None
                    /\ Get(readback'[e])["vertices"] # None)
                    => Get(Get(readback'[e])["vertices"]) = ssbo[e]["compacted_vertices"]
              /\ (Get(readback[e])["faces"] = None
                    /\ Get(readback'[e])["faces"] # None)
                    => Get(Get(readback'[e])["faces"]) = ssbo[e]["compacted_faces"]]_vars

\* C6: every attached mesh has all its triangle indices strictly below its
\* number of vertex positions.
C6_MeshIndicesInRange ==
    \A e \in Entities :
        IsSome(mesh[e]) =>
            \A i \in 1..Len(Get(mesh[e]).indices) :
                Get(mesh[e]).indices[i] < Len(Get(mesh[e]).positions)

\* C7: SurfaceNetsBuffers exist for an entity only if its density field has
\* nx*ny*nz samples and no dimension is zero.
C7_MalformedInputRejected ==
    \A e \in Entities :
        IsSome(buffers[e]) =>
            /\ \A a \in 1..3 : dimensions[a] >= 1
            /\ Len(Get(density[e])) = dimensions[1] * dimensions[2] * dimensions[3]

\* C8: after the prefix-sum stage on a validity array of length N, index[i]
\* is the number of set flags before i and the count scalar is the number of
\* set flags (0 when N = 0), also when N exceeds one 256-thread workgroup.
C8_PrefixSumExclusive ==
    scan_pc = "done" =>
        /\ Len(scan_out.indices) = Len(scan_valid)
        /\ \A i \in 1..Len(scan_valid) :
              scan_out.indices[i] = Cardinality({j \in 1..(i - 1) : scan_valid[j] # 0})
        /\ scan_out.count = <<Cardinality({j \in 1..Len(scan_valid) : scan_valid[j] # 0})>>

\* C8 witness: a scan of more than 256 flags with set flags in the second
\* workgroup's range.
C8_Witness ==
    /\ scan_pc = "done"
    /\ Len(scan_valid) > ScanWorkgroupSize
    /\ scan_valid[Len(scan_valid)] # 0
    /\ scan_out.indices[Len(scan_valid)] >= 2
    /\ scan_out.count[1] = scan_out.indices[Len(scan_valid)] + 1

\* C9: once a compaction stage has been dispatched, the set flags address
\* pairwise distinct slots and the dense array holds the flagged source
\* records in original order without gaps.
C9_CompactionIsSubsequence ==
    \A e \in Entities :
        LET s == ssbo[e]
            Dense(valid, indices, source, dense, width) ==
                LET set == {i \in 1..Len(valid) : valid[i] # 0}
                IN  /\ \A i, j \in set : i # j => indices[i] # indices[j]
                    /\ \A i \in set : \A c \in 1..width :
                          dense[width * Cardinality({j \in set : j < i}) + c]
                              = source[width * (i - 1) + c]
        IN  /\ "compact_vertices" \in dispatched[e] =>
                  Dense(s["vertex_valid"], s["vertex_indices"], s["vertices"],
                        s["compacted_vertices"], 3)
            /\ "compact_faces" \in dispatched[e] =>
                  Dense(s["face_valid"], s["face_indices"], s["faces"],
                        s["compacted_faces"], 4)

\* C10: a vertex count read back is at most the number of cells of the run's
\* dimensions and a face count read back is at most three times that, also
\* when the stages were dispatched again on the same buffers.
C10_CountsBounded ==
    \A e \in Entities :
        IsSome(readback[e]) =>
            LET d == Get(buffers[e]).dimensions
                Side(a) == IF d[a] >= 1 THEN d[a] - 1 ELSE 0
                cells == Side(1) * Side(2) * Side(3)
                rb == Get(readback[e])
            IN  /\ IsSome(rb["vertex_count"]) => Get(rb["vertex_count"]) <= cells
                /\ IsSome(rb["face_count"]) => Get(rb["face_count"]) <= 3 * cells

\* C10 witness: non-zero counts were read back after the stages had run more
\* than once: the first readback already saw generated flags but a zero
\* vertex count, so the count recorded comes from a later dispatch.
C10_Witness ==
    \E e \in Entities :
        /\ IsSome(readback[e])
        /\ IsSome(captured_from[e])
        /\ \E i \in 1..Len(Get(captured_from[e])["vertex_valid"]) :
              Get(captured_from[e])["vertex_valid"][i] # 0
        /\ Get(captured_from[e])["vertex_count"] = <<0>>
        /\ IsSome(Get(readback[e])["vertex_count"])
        /\ Get(Get(readback[e])["vertex_count"]) >= 1
        /\ IsSome(Get(readback[e])["face_count"])
        /\ Get(Get(readback[e])["face_count"]) >= 1

\* C15: index is a bijection from the in-bounds coordinates onto
\* 0..density_count()-1, with x varying fastest, then y, then z (z-major).
C15_IndexBijection ==
    (call_pc = "done" /\ call_args.fn = "index") =>
        LET d == call_args.dims
            coords == DOMAIN call_ret
        IN  /\ \A a, b \in coords : a # b => call_ret[a] # call_ret[b]
            /\ {call_ret[c] : c \in coords} = 0..(d[1] * d[2] * d[3] - 1)
            /\ \A c \in coords :
                  /\ <<c[1] + 1, c[2], c[3]>> \in coords =>
                        call_ret[<<c[1] + 1, c[2], c[3]>>] = call_ret[c] + 1
                  /\ <<c[1], c[2] + 1, c[3]>> \in coords =>
                        call_ret[<<c[1], c[2] + 1, c[3]>>] = call_ret[c] + d[1]
                  /\ <<c[1], c[2], c[3] + 1>> \in coords =>
                        call_ret[<<c[1], c[2], c[3] + 1>>] = call_ret[c] + d[1] * d[2]

\* C15 witness: index was tabulated on a grid whose three dimensions differ.
C15_Witness ==
    /\ call_pc = "done"
    /\ call_args.fn = "index"
    /\ call_args.dims = <<2, 3, 4>>
    /\ call_ret[<<1, 2, 3>>] = 23

\* C16: for all u32 dimensions cell_count() and density_count() return the
\* exact products max(nx-1,0)*max(ny-1,0)*max(nz-1,0) and nx*ny*nz, without
\* overflow, wrap or panic (the exact product of three u32 has 12 digits).
C16_CountsExact ==
    (call_pc = "done" /\ call_args.fn = "counts") =>
        LET d == call_args.size
            Side(a) == IF d[a] = ToU32(0) THEN d[a] ELSE DigitSub(d[a], ToU32(1), 1, 0)
            Wide(A) == A \o [i \in 1..(12 - Len(A)) |-> 0]
        IN  /\ call_ret.density_count # "panic"
            /\ call_ret.cell_count # "panic"
            /\ Wide(call_ret.density_count) = ExactMul(ExactMul(d[1], d[2]), d[3])
            /\ Wide(call_ret.cell_count) = ExactMul(ExactMul(Side(1), Side(2)), Side(3))

\* C17: when the face array holds at least 4*face_count indices, the triangle
\* index list has exactly 6*face_count entries and quad k = (v0,v1,v2,v3)
\* gives entries 6k..6k+5 = v0,v1,v2,v0,v2,v3, quads in their original order.
C17_QuadsSplitInOrder ==
    (/\ call_pc = "done"
     /\ call_args.fn = "triangle_indices"
     /\ Len(call_args.faces) >= 4 * call_args.face_count) =>
        /\ Len(call_ret) = 6 * call_args.face_count
        /\ \A k \in 0..(call_args.face_count - 1) :
              LET v == [c \in 0..3 |-> call_args.faces[4 * k + c + 1]]
              IN  /\ call_ret[6 * k + 1] = v[0]
                  /\ call_ret[6 * k + 2] = v[1]
                  /\ call_ret[6 * k + 3] = v[2]
                  /\ call_ret[6 * k + 4] = v[0]
                  /\ call_ret[6 * k + 5] = v[2]
                  /\ call_ret[6 * k + 6] = v[3]

\* C17 witness: two quads split from a face array of exactly eight indices
\* whose quads hold four different indices each.
C17_Witness ==
    /\ call_pc = "done"
    /\ call_args.fn = "triangle_indices"
    /\ call_args.face_count = 2
    /\ Len(call_args.faces) = 8
    /\ Cardinality({call_args.faces[i] : i \in 1..4}) = 4
    /\ Len(call_ret) = 12

\* C18: compute_flat_normals returns one normal per position, and a vertex
\* referenced by no counted triangle (all three indices in range) gets the
\* zero vector.
C18_OneNormalPerPosition ==
    (call_pc = "done" /\ call_args.fn = "compute_flat_normals") =>
        LET n == Len(call_args.positions)
            idx == call_args.indices
            counted == {k \in 1..(Len(idx) \div 3) :
                            idx[3 * k - 2] < n /\ idx[3 * k - 1] < n /\ idx[3 * k] < n}
            referenced == {idx[3 * k - c] : k \in counted, c \in 0..2}
        IN  /\ DOMAIN call_ret = 1..n
            /\ \A v \in 0..(n - 1) : v \notin referenced => call_ret[v + 1] = <<0, 0, 0>>

\* C18 witness: one call with a counted triangle giving a non-zero normal,
\* a skipped triangle with an index out of range, and an unreferenced vertex.
C18_Witness ==
    /\ call_pc = "done"
    /\ call_args.fn = "compute_flat_normals"
    /\ LET n == Len(call_args.positions)
           idx == call_args.indices
           chunks == 1..(Len(idx) \div 3)
           InRange(k) == idx[3 * k - 2] < n /\ idx[3 * k - 1] < n /\ idx[3 * k] < n
       IN  /\ \E k \in chunks : ~InRange(k)
           /\ \E k \in chunks : InRange(k)
           /\ \E v \in 1..n : call_ret[v] # <<0, 0, 0>>
           /\ \E v \in 0..(n - 1) :
                 /\ call_ret[v + 1] = <<0, 0, 0>>
                 /\ \A k \in chunks : InRange(k) => \A c \in 0..2 : idx[3 * k - c] # v

\* C11: extraction is deterministic: whatever the order of pipeline
\* compilation, buffer preparation and readback completion, the mesh built
\* for a density field is the one built when all four readbacks follow one
\* complete run of the six stages.
C11_SameInputSameMesh ==
    \A e \in Entities :
        IsSome(mesh[e]) =>
            LET d == dimensions
                complete == RunStages(6, NewStorage(Get(density[e]), d), d,
                                      cell_count(d), Pipelines, 0)
                rb == [k \in Kinds |->
                          Some(ReadbackValue(k, complete[ReadbackSource(k)]))]
            IN  Get(mesh[e]) = BuildMesh(rb, MeshSize, d)

\* C12: an entity's Mesh3d is attached only after its buffers and bind
\* groups were created, all six stages were dispatched and its readbacks
\* completed.
C12_MeshAfterWholePipeline ==
    \A e \in Entities :
        IsSome(mesh[e]) =>
            /\ IsSome(buffers[e])
            /\ bind_groups[e]
            /\ dispatched[e] = Stages
            /\ children[e] = {}

\* C13: once an entity has its mesh, its SurfaceNetsBuffers and
\* SurfaceNetsBindGroups are gone and no later node run dispatches a stage
\* for it (nothing more is dispatched, no buffer content changes).
C13_RunStateReleased ==
    [][\A e \in Entities :
          IsSome(mesh[e]) =>
              /\ buffers'[e] = None
              /\ ~bind_groups'[e]
              /\ dispatched'[e] = dispatched[e]
              /\ ssbo'[e] = ssbo[e]]_vars

\* C19: for a density field with no sign change, the vertex and face counts
\* are 0 in the buffers and in every readback, and the mesh built has empty
\* position, normal and index arrays, whatever arrays were read back.
C19_NoSignChangeEmptyMesh ==
    \A e \in Entities :
        (/\ IsSome(density[e])
         /\ IsSome(buffers[e])
         /\ \/ \A i \in 1..Len(Get(density[e])) : Get(density[e])[i] >= 0
            \/ \A i \in 1..Len(Get(density[e])) : Get(density[e])[i] < 0) =>
            /\ ssbo[e]["vertex_count"] = <<0>>
            /\ ssbo[e]["face_count"] = <<0>>
            /\ IsSome(readback[e]) =>
                  /\ Get(readback[e])["vertex_count"] \in {None, Some(0)}
                  /\ Get(readback[e])["face_count"] \in {None, Some(0)}
            /\ IsSome(mesh[e]) =>
                  /\ Get(mesh[e]).positions = <<>>
                  /\ Get(mesh[e]).indices = <<>>
                  /\ compute_flat_normals(Get(mesh[e]).positions,
                                          Get(mesh[e]).indices) = <<>>
                  /\ \A va \in {ssbo[e]["vertices"], <<5, 6, 7, 8, 9, 10>>} :
                     \A fa \in {ssbo[e]["faces"], <<3, 2, 1, 0>>} :
                        LET m == BuildMesh([vertex_count |-> Some(0), vertices |-> Some(va),
                                            face_count |-> Some(0), faces |-> Some(fa)],
                                           MeshSize, dimensions)
                        IN  m.positions = <<>> /\ m.indices = <<>>

\* C19 witness: an all-positive field went through all six stages and got a
\* mesh, built from readback arrays of the uncompacted sizes.
C19_Witness ==
    \E e \in Entities :
        /\ IsSome(density[e])
        /\ \A i \in 1..Len(Get(density[e])) : Get(density[e])[i] > 0
        /\ dispatched[e] = Stages
        /\ IsSome(mesh[e])
        /\ Get(mesh[e]).positions = <<>>
        /\ IsSome(captured_from[e])
        /\ Len(Get(captured_from[e])["vertices"]) = 3 * 2
        /\ Len(Get(captured_from[e])["faces"]) = 4 * 3 * 2

C14_OneRunStateNoAliasing ==
    [][LET NoAliasing(bufs) ==
               \A e1, e2 \in Entities :
                   (IsSome(bufs[e1]) /\ IsSome(bufs[e2])) =>
                       \A n1, n2 \in BufferNames :
                           (Get(bufs[e1]).handles[n1] = Get(bufs[e2]).handles[n2]) =>
                               (e1 = e2 /\ n1 = n2)
       IN  /\ NoAliasing(buffers)
           /\ NoAliasing(buffers')
           /\ \A e \in Entities :
                  buffers'[e] # buffers[e] =>
                      /\ IsSome(density[e])
                      /\ buffers[e] = None
                      /\ mesh[e] = None
                      /\ IsSome(buffers'[e])]_vars

\* C14 witness: one entity already has its mesh and still holds its buffers,
\* and a second entity, spawned later, has just been given buffers of its own.
C14_Witness ==
    /\ IsSome(mesh["field"])
    /\ IsSome(buffers["field"])
    /\ IsSome(buffers["second"])
    /\ added["second"]
    /\ mesh["second"] = None
    /\ Get(buffers["field"]).handles["density_field"] = 1
    /\ Get(buffers["second"]).handles["density_field"] = BufferCount + 1

\* C21: the mesh of an entity is the one the assembler builds with the
\* dimensions stored in the entity's SurfaceNetsBuffers, which sized its
\* buffers and give its workgroup counts, whatever the DensityFieldSize
\* resource holds when the mesh is built.
C21_OneDimensionsPerRun ==
    [][\A e \in Entities :
          (mesh[e] = None /\ mesh'[e] # None) =>
              /\ IsSome(buffers[e])
              /\ \A n \in BufferNames \ {"density_field"} :
                     Len(ssbo[e][n]) = Len(NewStorage(Get(density[e]),
                                                      Get(buffers[e]).dimensions)[n])
              /\ mesh'[e] = Some(BuildMesh(Get(readback[e]), MeshSize,
                                           Get(buffers[e]).dimensions))]_vars

\* C22: when mesh_size / dimensions is 1 on every axis, the assembler's
\* positions are the grid-space coordinates of the vertex array, unchanged
\* and in the same order, one position per vertex the array holds.
C22_IdentityScaleKeepsPositions ==
    (/\ call_pc = "done"
     /\ call_args.fn = "build_mesh"
     /\ \A k \in 1..3 : call_args.mesh_size[k] = call_args.dims[k] /\ call_args.dims[k] # 0) =>
        LET vertices == Get(call_args.rb["vertices"])
            vertex_count == Get(call_args.rb["vertex_count"])
        IN  /\ Len(vertices) >= 3 * vertex_count => Len(call_ret.positions) = vertex_count
            /\ \A i \in 1..Len(call_ret.positions) :
                  \A k \in 1..3 :
                     LET p == call_ret.positions[i][k]
                     IN  p[2] # 0 /\ p[1] = vertices[3 * (i - 1) + k] * p[2]

\* C22 witness: three vertices with different coordinates assembled with
\* mesh size (2,3,4) on dimensions (2,3,4).
C22_Witness ==
    /\ call_pc = "done"
    /\ call_args.fn = "build_mesh"
    /\ call_args.mesh_size = <<2, 3, 4>>
    /\ call_args.dims = <<2, 3, 4>>
    /\ Get(call_args.rb["vertex_count"]) = 3
    /\ Len(Get(call_args.rb["vertices"])) = 9
    /\ Len(call_ret.positions) = 3
    /\ Cardinality({call_ret.positions[i] : i \in 1..3}) = 3

\* C26: for any snapshot the assembler emits exactly
\* min(vertex_count, floor(len(vertices)/3)) positions, position i read from
\* slots 3i..3i+2 of the vertex array, and 6*min(face_count,
\* floor(len(faces)/4)) triangle indices, each a word of the quad it belongs
\* to; so it emits vertex_count positions when the array holds at least
\* 3*vertex_count floats.
C26_AssemblerStaysInsideArrays ==
    (call_pc = "done" /\ call_args.fn = "build_mesh") =>
        LET vertices == Get(call_args.rb["vertices"])
            vertex_count == Get(call_args.rb["vertex_count"])
            faces == Get(call_args.rb["faces"])
            face_count == Get(call_args.rb["face_count"])
            scale == Scale(call_args.mesh_size, call_args.dims)
        IN  /\ Len(call_ret.positions) = Min(vertex_count, Len(vertices) \div 3)
            /\ Len(call_ret.indices) = 6 * Min(face_count, Len(faces) \div 4)
            /\ Len(vertices) >= 3 * vertex_count => Len(call_ret.positions) = vertex_count
            /\ \A i \in 1..Len(call_ret.positions) :
                  /\ 3 * i <= Len(vertices)
                  /\ \A k \in 1..3 :
                        call_ret.positions[i][k] =
                            <<vertices[3 * (i - 1) + k] * scale[k][1], scale[k][2]>>
            /\ \A j \in 1..Len(call_ret.indices) :
                  LET quad == (j - 1) \div 6
                  IN  /\ 4 * quad + 4 <= Len(faces)
                      /\ call_ret.indices[j] \in {faces[4 * quad + c] : c \in 1..4}

\* C26 witness: counts of 3 vertices and 2 faces with arrays of 7 floats and
\* 5 words: two positions and one quad are emitted.
C26_Witness ==
    /\ call_pc = "done"
    /\ call_args.fn = "build_mesh"
    /\ Get(call_args.rb["vertex_count"]) = 3
    /\ Len(Get(call_args.rb["vertices"])) = 7
    /\ Get(call_args.rb["face_count"]) = 2
    /\ Len(Get(call_args.rb["faces"])) = 5
    /\ Len(call_ret.positions) = 2
    /\ Len(call_ret.indices) = 6

\* C23: a step in which the Readback child of kind k of entity e is
\* despawned stores the value read from that child's buffer in field k of
\* e's ReadbackBuffers and despawns that child only; the other three fields,
\* the ReadbackBuffers and children of every other entity, and all buffers,
\* buffer contents and meshes are unchanged.
C23_ReadbackCompleteFrame ==
    [][\A e \in Entities, k \in Kinds :
          (k \in children[e] /\ k \notin children'[e]) =>
              /\ children' = [children EXCEPT ![e] = children[e] \ {k}]
              /\ IsSome(readback[e])
              /\ IsSome(readback'[e])
              /\ Get(readback'[e])[k] =
                    Some(ReadbackValue(k, ssbo[e][ReadbackSource(k)]))
              /\ \A j \in Kinds \ {k} : Get(readback'[e])[j] = Get(readback[e])[j]
              /\ \A o \in Entities \ {e} : readback'[o] = readback[o]
              /\ buffers' = buffers
              /\ ssbo' = ssbo
              /\ mesh' = mesh
              /\ density' = density]_vars

\* C23 witness: two of the four readbacks of one entity have completed
\* while a second entity holds an untouched ReadbackBuffers with its four
\* children.
C23_Witness ==
    /\ IsSome(readback["field"])
    /\ IsSome(Get(readback["field"])["vertex_count"])
    /\ IsSome(Get(readback["field"])["vertices"])
    /\ children["field"] = {"face_count", "faces"}
    /\ readback["second"] = Some(EmptyReadback)
    /\ children["second"] = Kinds

\* C28: every live Readback child belongs to an entity that still has its
\* ReadbackBuffers (and its SurfaceNetsBuffers), so an observer that handles
\* ReadbackComplete finds both the parent and the component.
C28_ObserverFindsReadbackBuffers ==
    \A e \in Entities :
        children[e] # {} =>
            /\ IsSome(readback[e])
            /\ IsSome(buffers[e])
            /\ mesh[e] = None
            /\ \A k \in Kinds : k \in children[e] <=> Get(readback[e])[k] = None

\* C28 witness: the mesh of one entity is built and its ReadbackBuffers
\* removed while another entity still waits for two of its readbacks.
C28_Witness ==
    /\ IsSome(mesh["field"])
    /\ readback["field"] = None
    /\ children["field"] = {}
    /\ IsSome(readback["second"])
    /\ children["second"] = {"vertices", "faces"}

\* C29: ReadbackBuffers is attached only to an entity without a mesh, whose
\* readbacks were never set up before (it has no children and nothing was
\* captured for it), together with its four children; and once an entity has
\* a mesh, its mesh and buffers never change, it gets no ReadbackBuffers and
\* no children again.
C29_SetupAndBuildOnce ==
    [][\A e \in Entities :
          /\ (readback[e] = None /\ readback'[e] # None) =>
                /\ mesh[e] = None
                /\ captured_from[e] = None
                /\ children[e] = {}
                /\ children'[e] = Kinds
                /\ readback'[e] = Some(EmptyReadback)
          /\ mesh[e] # None =>
                /\ mesh'[e] = mesh[e]
                /\ buffers'[e] = buffers[e]
                /\ readback[e] = None
                /\ readback'[e] = None
                /\ children'[e] = {}]_vars

\* C29 witness: an entity has its mesh, keeps its buffers and has lost its
\* ReadbackBuffers, and the readbacks of an entity created after it are
\* set up and partly complete.
C29_Witness ==
    /\ IsSome(mesh["field"])
    /\ IsSome(buffers["field"])
    /\ readback["field"] = None
    /\ ~added["field"]
    /\ IsSome(buffers["second"])
    /\ Get(buffers["second"]).handles["density_field"] = BufferCount + 1
    /\ IsSome(readback["second"])
    /\ children["second"] = {"faces"}

\* C27: a count readback (vertex count or face count) that completes with
\* an empty payload records the count as Some(0); if the other three values
\* are present the snapshot then passes the let-else chain and the
\* assembler builds with that count 0: no position for a vertex count, no
\* triangle index for a face count.
C27_EmptyCountPayloadIsZero ==
    (/\ call_pc = "done"
     /\ call_args.fn = "ReadbackComplete"
     /\ call_args.kind \in {"vertex_count", "face_count"}
     /\ call_args.data = <<>>) =>
        /\ call_ret[call_args.kind] = Some(0)
        /\ \A j \in Kinds \ {call_args.kind} : call_ret[j] = call_args.rb[j]
        /\ (\A j \in Kinds \ {call_args.kind} : IsSome(call_args.rb[j])) =>
              /\ BuildReady(call_ret)
              /\ call_args.kind = "vertex_count" =>
                    BuildMesh(call_ret, MeshSize, <<2, 2, 2>>).positions = <<>>
              /\ call_args.kind = "face_count" =>
                    BuildMesh(call_ret, MeshSize, <<2, 2, 2>>).indices = <<>>

\* C27 witness: the vertex-count readback completes empty as the last of
\* the four, on a snapshot whose vertex array holds a vertex.
C27_Witness ==
    /\ call_pc = "done"
    /\ call_args.fn = "ReadbackComplete"
    /\ call_args.kind = "vertex_count"
    /\ call_args.data = <<>>
    /\ call_args.rb["vertices"] = Some(<<1, 1, 1>>)
    /\ IsSome(call_args.rb["face_count"])
    /\ IsSome(call_args.rb["faces"])
    /\ BuildReady(call_ret)

\* C24: a step dispatches stages for an entity, or changes the contents of
\* its existing buffers, only if the entity has bind groups; an entity gets
\* bind groups only in a step in which all eleven of its GPU buffers are
\* ready, and that step changes nothing else of the entity; while a buffer of
\* the entity is not ready it has no bind groups; bind groups, once created,
\* stay (they are created at most once).
C24_BindGroupsGateDispatch ==
    [][\A e \in Entities :
          /\ dispatched'[e] # dispatched[e] => bind_groups[e] /\ IsSome(buffers[e])
          /\ (IsSome(buffers[e]) /\ ssbo'[e] # ssbo[e]) => bind_groups[e]
          /\ (~bind_groups[e] /\ bind_groups'[e]) =>
                /\ IsSome(buffers[e])
                /\ gpu_ready[e] = BufferCount
                /\ buffers'[e] = buffers[e]
                /\ ssbo'[e] = ssbo[e]
                /\ gpu_ready'[e] = gpu_ready[e]
                /\ readback'[e] = readback[e]
                /\ mesh'[e] = mesh[e]
                /\ dispatched'[e] = dispatched[e]
          /\ gpu_ready[e] < BufferCount => ~bind_groups[e] /\ ~bind_groups'[e]
          /\ bind_groups[e] => bind_groups'[e]]_vars

\* C24 witness: an entity whose eleven buffers are ready has bind groups and
\* only its first stage has been dispatched.
C24_Witness ==
    \E e \in Entities :
        /\ gpu_ready[e] = BufferCount
        /\ bind_groups[e]
        /\ dispatched[e] = {"generate_vertices"}

\* C25: in the bind groups of an entity every binding has an access mode in
\* its layout; each of the ten working buffers is bound read-write in exactly
\* one stage and the density field in none; a buffer bound read-only is the
\* density field or is bound read-write by a stage earlier in the dispatch
\* order; no stage binds a buffer twice.
C25_WiringWritesOnceReadsAfter ==
    \A e \in Entities :
        bind_groups[e] =>
            LET bound(st, mode) ==
                    {BindGroupEntries(st)[i] :
                        i \in {j \in 1..Len(BindGroupEntries(st)) :
                                  LayoutAccess(StagePipeline(st))[j] = mode}}
            IN  /\ \A st \in Stages :
                      /\ Len(LayoutAccess(StagePipeline(st))) = Len(BindGroupEntries(st))
                      /\ Cardinality({BindGroupEntries(st)[i] :
                                         i \in 1..Len(BindGroupEntries(st))})
                            = Len(BindGroupEntries(st))
                      /\ bound(st, "read_only") \cap bound(st, "read_write") = {}
                      /\ \A n \in bound(st, "read_only") :
                            \/ n = "density_field"
                            \/ \E w \in Stages :
                                  StagePos(w) < StagePos(st) /\ n \in bound(w, "read_write")
                /\ \A n \in BufferNames \ {"density_field"} :
                      Cardinality({st \in Stages : n \in bound(st, "read_write")}) = 1
                /\ \A st \in Stages : "density_field" \notin bound(st, "read_write")

\* C25 witness: an entity has its bind groups and all six stages have been
\* dispatched with them, none of its readbacks having completed.
C25_Witness ==
    \E e \in Entities :
        /\ bind_groups[e]
        /\ dispatched[e] = Stages
        /\ children[e] = Kinds

\* C30: for dimensions in use (every axis at most InUseAxis) no u32
\* expression of the workgroup counts overflows, with or without overflow
\* checks; per axis the count w satisfies 8*w >= dim > 8*(w-1); the 1-D count
\* w satisfies 256*w >= cell_count > 256*(w-1); the face count w satisfies
\* 256*w >= 3*cell_count > 256*(w-1); and the counts are those the pipeline
\* model dispatches with.
C30_DispatchCoversExactly ==
    (/\ call_pc = "done"
     /\ call_args.fn = "workgroup_counts"
     /\ \A a \in 1..3 : DigitLess(call_args.size[a], ToU32(InUseAxis + 1))) =>
        LET d == [a \in 1..3 |-> FromU32(call_args.size[a])]
            cells == (IF d[1] > 0 THEN d[1] - 1 ELSE 0)
                        * (IF d[2] > 0 THEN d[2] - 1 ELSE 0)
                        * (IF d[3] > 0 THEN d[3] - 1 ELSE 0)
            candidates == ExactMul(ToU32(cells), ToU32(3))
            covered(W) == ExactMul(W, ToU32(ScanWorkgroupSize))
        IN  /\ ~call_ret.panicked
            /\ \A a \in 1..3 :
                  LET w == FromU32(call_ret.workgroup_count_3d[a])
                  IN  /\ WORKGROUP_SIZE * w >= d[a]
                      /\ d[a] > WORKGROUP_SIZE * (w - 1)
                      /\ w = workgroup_count_3d(d)[a]
            /\ LET w == FromU32(call_ret.workgroup_count_1d)
               IN  /\ ScanWorkgroupSize * w >= cells
                   /\ cells > ScanWorkgroupSize * (w - 1)
                   /\ w = workgroup_count_1d(cells)
            /\ LET W == call_ret.face_workgroups
               IN  /\ ~DigitLess(covered(W), candidates)
                   /\ IF W = ToU32(0) THEN cells = 0
                      ELSE DigitLess(covered(WrappingSub(W, ToU32(1))), candidates)
                   /\ cells <= 100000 => FromU32(W) = face_workgroups(cells)

\* C30 witness: the counts for the largest dimensions in use, whose
\* 3*cell_count is beyond 2^31, and a last workgroup that is not full.
C30_Witness ==
    /\ call_pc = "done"
    /\ call_args.fn = "workgroup_counts"
    /\ call_args.size = <<ToU32(InUseAxis), ToU32(InUseAxis), ToU32(InUseAxis)>>
    /\ ~call_ret.panicked
    /\ max_faces_u32(cell_count_u32(call_args.size))[4] >= 128
    /\ max_faces_u32(cell_count_u32(call_args.size))[1] # 0
    /\ FromU32(call_ret.workgroup_count_3d[1]) = InUseAxis \div WORKGROUP_SIZE

====
